---- MODULE Spec2Model ----
(***************************************************************************)
(* active_instances.py of python-reportingclient: the reconciliation of    *)
(* the hypervisor, instance and project reports into the list of active    *)
(* instances, and the script's main sequence around it.                    *)
(*                                                                         *)
(* Python str values that the code takes apart (hostnames, hypervisor      *)
(* references, availability zones) are sequences of one-character strings; *)
(* None is a one-element sequence holding a token that is no character.    *)
(* A dict is a function; a fetched record is a dict with string keys.      *)
(* An object reference is the position of the object in the fetched list.  *)
(***************************************************************************)
EXTENDS Integers, Sequences, FiniteSets, TLC

VARIABLES
    hypervisor,          \* client.fetch('hypervisor'): list of dicts
    instance,            \* client.fetch('instance', active=1): list of dicts, mutable objects
    project,             \* client.fetch('project'): list of dicts
    fetched,             \* history: the instance records as fetch first returned them
    pc,                  \* position in the code
    h_pos,               \* position of the hypervisor loops (lines 39, 49)
    i_pos,               \* position of the instance loop (line 65)
    hyp_short,           \* dict short name -> hypervisor object
    project_by_id,       \* dict project id -> project object
    instance_hypervisor, \* dict instance id -> hypervisor object
    instance_by_id,      \* dict instance id -> instance object
    enriched,            \* instance ids the loop of line 83 has visited
    result,              \* the objects the returned generator yields
    log,                 \* the logger's records, in order
    exit_status,         \* the status the process exited with, NoExit while it runs
    run,                 \* which call of active_instances this is
    first_result,        \* the records the first call returned, as values
    reports,             \* client.get_reports(), names of the reports
    r_pos,               \* position of the loop of test_all_reports
    written              \* number of times write_file wrote to the output path

vars == <<hypervisor, instance, project, fetched, pc, h_pos, i_pos, hyp_short,
          project_by_id, instance_hypervisor, instance_by_id, enriched, result,
          log, exit_status, run, first_result, reports, r_pos, written>>

----------------------------------------------------------------------------
(* Bounds of the model. *)
MaxHyp == 2
MaxInst == 2
MaxColl == 3
MaxSeen == 2

(* Python values. *)
None == <<"None">>
EmptyStr == <<>>
NoExit == -1

\* a check for the empty string alone: `v == ''`
FalsyEmptyOnly(v) == v = EmptyStr

\* Python truthiness of a str-or-None value: `not v`.
Falsy(v) == v = None \/ v = EmptyStr

\* s.split('.')[0]: the text before the first '.', the whole text when there is none.
RECURSIVE split0(_)
split0(s) ==
    IF s = <<>> THEN <<>>
    ELSE IF Head(s) = "." THEN <<>>
    ELSE <<Head(s)>> \o split0(Tail(s))

\* d[k] = v on a dict.
SetItem(d, k, v) == [x \in DOMAIN d \cup {k} |-> IF x = k THEN v ELSE d[x]]

EmptyDict == [x \in {} |-> 0]

\* logger.error / logger.warn / logger.debug: one record appended.
LogRecord(level, event, id, detail) ==
    [level |-> level, event |-> event, id |-> id, detail |-> detail]

----------------------------------------------------------------------------
(* The data the reporting service can return. *)
az1 == <<"a", "z", "1">>
az2 == <<"a", "z", "2">>
stale == <<"o", "l", "d">>
host_ax == <<"a", ".", "x", ".", "o">>
host_ay == <<"a", ".", "y">>
host_b == <<"b", ".", "x">>
short_a == <<"a">>
host_c == <<"c", ".", "x">>

SeqsUpTo(S, n) == UNION {[1..m -> S] : m \in 0..n}

\* a hypervisor report of at most n rows; the id of a row is its position in the report
HypervisorReports(rows, n) ==
    {[k \in 1..Len(r) |->
        [id |-> k, hostname |-> r[k][1], availability_zone |-> r[k][2],
         last_seen |-> r[k][3]]] : r \in SeqsUpTo(rows, n)}

\* an instance report of at most n rows; the id of a row is its position in the report
InstanceReports(rows, n) ==
    {[k \in 1..Len(r) |->
        [id |-> k, hypervisor |-> r[k][1], project_id |-> r[k][2],
         availability_zone |-> stale]] : r \in SeqsUpTo(rows, n)}

ProjectReport ==
    <<[id |-> "P1", display_name |-> "Alpha"], [id |-> "P2", display_name |-> "Beta"]>>

Hosts == {host_ax, host_ay, host_b}

\* hypervisor rows with and without an availability zone, two of them apart in last_seen
HypervisorRows ==
    ({host_ax, host_ay} \X {EmptyStr, az1, az2} \X {2})
        \cup {<<host_b, EmptyStr, 2>>, <<host_b, az1, 2>>, <<host_ay, None, 2>>,
              <<host_ay, az2, 1>>}

\* hypervisor rows of every age, one of them without an availability zone
AgedHypervisorRows ==
    (Hosts \X {az1} \X (1..MaxSeen)) \cup {<<host_b, EmptyStr, 1>>}

\* hypervisor rows with an availability zone, and one without, one seen earlier
ZonedHypervisorRows ==
    ({host_ax, host_ay} \X {az1, az2} \X {2})
        \cup {<<host_b, az1, 2>>, <<host_b, EmptyStr, 2>>, <<host_ay, az2, 1>>}

\* instance rows: no hypervisor, a short and a fully qualified reference to a
\* hypervisor, a reference to no hypervisor; a known and an unknown project
InstanceRows == ({None, short_a, host_c} \X {"P2", "PX"}) \cup {<<host_ay, "P2">>}

FewInstanceRows == ({None, short_a, host_c} \X {"P2"}) \cup {<<short_a, "PX">>}

InstanceScenarios ==
    {[k \in 1..Len(r) |->
        [id |-> k, hypervisor |-> r[k][1], project_id |-> r[k][2],
         availability_zone |-> stale]] :
     r \in {<<<<None, "PX">>, <<short_a, "PX">>, <<host_ay, "P2">>>>,
            <<<<host_b, "P2">>, <<host_c, "P2">>>>}}

\* the lists client.get_reports() can return
ReportLists == {<<>>, <<"hypervisor", "instance", "project">>}

----------------------------------------------------------------------------
(* The state with the three reports fetched (lines 33-35), at position     *)
(* start of the code.                                                      *)
InitOver(HS, IS, start) ==
    /\ hypervisor \in HS
    /\ instance \in IS
    /\ project = ProjectReport
    /\ fetched = instance
    /\ pc = start
    /\ h_pos = 1
    /\ i_pos = 1
    /\ hyp_short = EmptyDict
    /\ project_by_id = EmptyDict
    /\ instance_hypervisor = EmptyDict
    /\ instance_by_id = EmptyDict
    /\ enriched = {}
    /\ result = {}
    /\ log = <<>>
    /\ exit_status = NoExit
    /\ run = 1
    /\ first_result = [fatal |-> FALSE, records |-> {}]
    /\ reports = <<>>
    /\ r_pos = 1
    /\ written = 0

\* one call of active_instances
Init ==
    InitOver(HypervisorReports(HypervisorRows, MaxHyp),
             InstanceReports(InstanceRows, MaxInst), "validate")

\* one call of active_instances, over hypervisors that share short names
InitResolve ==
    InitOver(HypervisorReports(AgedHypervisorRows, MaxColl), InstanceScenarios, "validate")

\* two calls of active_instances
InitTwice ==
    InitOver(HypervisorReports(ZonedHypervisorRows, MaxHyp),
             InstanceReports(FewInstanceRows, MaxInst), "validate")

\* the script, from line 155
InitMain ==
    InitOver(HypervisorReports(ZonedHypervisorRows, MaxHyp),
             InstanceReports(FewInstanceRows, MaxInst), "main")

\* logger.error(...) and sys.exit(1), lines 41-42 and 71-72
Fatal(rec) ==
    /\ log' = Append(log, rec)
    /\ exit_status' = 1
    /\ pc' = "exited"

----------------------------------------------------------------------------
(* Lines 39-43: every hypervisor has availability_zone defined. *)
ValidateFail ==
    /\ pc = "validate"
    /\ h_pos <= Len(hypervisor)
    /\ Falsy(hypervisor[h_pos]["availability_zone"])
    /\ Fatal(LogRecord("ERROR", "no_availability_zone", hypervisor[h_pos]["id"], <<>>))
    /\ UNCHANGED <<hypervisor, instance, project, fetched, h_pos, i_pos, hyp_short,
                   project_by_id, instance_hypervisor, instance_by_id, enriched, result,
                   run, first_result, reports, r_pos, written>>

ValidateNext ==
    /\ pc = "validate"
    /\ h_pos <= Len(hypervisor)
    /\ ~Falsy(hypervisor[h_pos]["availability_zone"])
    /\ h_pos' = h_pos + 1
    /\ UNCHANGED <<hypervisor, instance, project, fetched, pc, i_pos, hyp_short,
                   project_by_id, instance_hypervisor, instance_by_id, enriched, result,
                   log, exit_status, run, first_result, reports, r_pos, written>>

ValidateDone ==
    /\ pc = "validate"
    /\ h_pos > Len(hypervisor)
    /\ log' = Append(log, LogRecord("DEBUG", "checked_hypervisor_az", 0, <<>>))
    /\ hyp_short' = EmptyDict
    /\ h_pos' = 1
    /\ pc' = "resolve"
    /\ UNCHANGED <<hypervisor, instance, project, fetched, i_pos,
                   project_by_id, instance_hypervisor, instance_by_id, enriched, result,
                   exit_status, run, first_result, reports, r_pos, written>>

----------------------------------------------------------------------------
(* Lines 48-59: the lookup table of hypervisors by short name. *)

\* line 50
short_name_of_hypervisor(h) == split0(h["hostname"])

\* the comparison of line 56 turned round: `>`
SeenAfter(h, stored) == h["last_seen"] > stored["last_seen"]

\* the comparison of line 56 not strict: `<=`
SeenBeforeOrSame(h, stored) == h["last_seen"] <= stored["last_seen"]

\* line 56: the hypervisor h was seen before the one already stored
SeenBefore(h, stored) == h["last_seen"] < stored["last_seen"]

DuplicateWarning(h) ==
    LogRecord("WARNING", "duplicate_short_name",
              hypervisor[hyp_short[short_name_of_hypervisor(h)]]["id"], <<h["id"]>>)

\* lines 51, 59: a short name seen for the first time
ResolveFirst ==
    /\ pc = "resolve"
    /\ h_pos <= Len(hypervisor)
    /\ LET h == hypervisor[h_pos]
           short_name == short_name_of_hypervisor(h)
       IN /\ short_name \notin DOMAIN hyp_short
          /\ hyp_short' = SetItem(hyp_short, short_name, h_pos)
    /\ h_pos' = h_pos + 1
    /\ UNCHANGED <<hypervisor, instance, project, fetched, pc, i_pos,
                   project_by_id, instance_hypervisor, instance_by_id, enriched, result,
                   log, exit_status, run, first_result, reports, r_pos, written>>

\* lines 51-58: a duplicate short name, the stored hypervisor is kept
ResolveKeep ==
    /\ pc = "resolve"
    /\ h_pos <= Len(hypervisor)
    /\ LET h == hypervisor[h_pos]
           short_name == short_name_of_hypervisor(h)
       IN /\ short_name \in DOMAIN hyp_short
          /\ SeenBefore(h, hypervisor[hyp_short[short_name]])
          /\ log' = Append(log, DuplicateWarning(h))
    /\ h_pos' = h_pos + 1
    /\ UNCHANGED <<hypervisor, instance, project, fetched, pc, i_pos, hyp_short,
                   project_by_id, instance_hypervisor, instance_by_id, enriched, result,
                   exit_status, run, first_result, reports, r_pos, written>>

\* lines 51-56, 59: a duplicate short name, the new hypervisor takes the slot
ResolveReplace ==
    /\ pc = "resolve"
    /\ h_pos <= Len(hypervisor)
    /\ LET h == hypervisor[h_pos]
           short_name == short_name_of_hypervisor(h)
       IN /\ short_name \in DOMAIN hyp_short
          /\ ~SeenBefore(h, hypervisor[hyp_short[short_name]])
          /\ log' = Append(log, DuplicateWarning(h))
          /\ hyp_short' = SetItem(hyp_short, short_name, h_pos)
    /\ h_pos' = h_pos + 1
    /\ UNCHANGED <<hypervisor, instance, project, fetched, pc, i_pos,
                   project_by_id, instance_hypervisor, instance_by_id, enriched, result,
                   exit_status, run, first_result, reports, r_pos, written>>

\* line 62: {p['id']: p for p in project}, a later project of the same id replaces an earlier
ProjectsById(ps) ==
    [pid \in {ps[k]["id"] : k \in 1..Len(ps)} |->
        CHOOSE k \in 1..Len(ps) :
            /\ ps[k]["id"] = pid
            /\ \A j \in 1..Len(ps) : ps[j]["id"] = pid => j <= k]

\* the loop of line 49 is over; lines 62-64
ResolveDone ==
    /\ pc = "resolve"
    /\ h_pos > Len(hypervisor)
    /\ project_by_id' = ProjectsById(project)
    /\ instance_hypervisor' = EmptyDict
    /\ instance_by_id' = EmptyDict
    /\ i_pos' = 1
    /\ pc' = "join"
    /\ UNCHANGED <<hypervisor, instance, project, fetched, h_pos, hyp_short,
                   enriched, result, log, exit_status, run, first_result, reports,
                   r_pos, written>>

----------------------------------------------------------------------------
(* Lines 65-79: every instance has a valid hypervisor and project_id. *)

\* line 69
short_name_of_instance(i) == split0(i["hypervisor"])

\* the check of line 73 placed before the lookup of line 70
JoinVerdictProjectFirst(i) ==
    IF i["hypervisor"] = None THEN "no_hypervisor"
    ELSE IF i["project_id"] \notin DOMAIN project_by_id THEN "invalid_project_id"
    ELSE IF short_name_of_instance(i) \notin DOMAIN hyp_short THEN "unknown_hypervisor"
    ELSE "retain"

\* lines 66-75: what the loop body decides for instance i, in the order of the code
JoinVerdict(i) ==
    IF i["hypervisor"] = None THEN "no_hypervisor"
    ELSE IF short_name_of_instance(i) \notin DOMAIN hyp_short THEN "unknown_hypervisor"
    ELSE IF i["project_id"] \notin DOMAIN project_by_id THEN "invalid_project_id"
    ELSE "retain"

\* lines 66-68 without the warning of line 67
JoinNoHypervisorSilent ==
    /\ pc = "join"
    /\ i_pos <= Len(instance)
    /\ JoinVerdict(instance[i_pos]) = "no_hypervisor"
    /\ i_pos' = i_pos + 1
    /\ UNCHANGED <<hypervisor, instance, project, fetched, pc, h_pos, hyp_short,
                   project_by_id, instance_hypervisor, instance_by_id, enriched, result,
                   log, exit_status, run, first_result, reports, r_pos, written>>

\* lines 66-68
JoinNoHypervisor ==
    /\ pc = "join"
    /\ i_pos <= Len(instance)
    /\ JoinVerdict(instance[i_pos]) = "no_hypervisor"
    /\ log' = Append(log, LogRecord("WARNING", "no_hypervisor", instance[i_pos]["id"], <<>>))
    /\ i_pos' = i_pos + 1
    /\ UNCHANGED <<hypervisor, instance, project, fetched, pc, h_pos, hyp_short,
                   project_by_id, instance_hypervisor, instance_by_id, enriched, result,
                   exit_status, run, first_result, reports, r_pos, written>>

\* lines 69-72
JoinUnknownHypervisor ==
    /\ pc = "join"
    /\ i_pos <= Len(instance)
    /\ JoinVerdict(instance[i_pos]) = "unknown_hypervisor"
    /\ Fatal(LogRecord("ERROR", "unknown_hypervisor", instance[i_pos]["id"], <<>>))
    /\ UNCHANGED <<hypervisor, instance, project, fetched, h_pos, i_pos, hyp_short,
                   project_by_id, instance_hypervisor, instance_by_id, enriched, result,
                   run, first_result, reports, r_pos, written>>

\* lines 73-75 with `break` for the `continue` of line 75
JoinInvalidProjectBreak ==
    /\ pc = "join"
    /\ i_pos <= Len(instance)
    /\ JoinVerdict(instance[i_pos]) = "invalid_project_id"
    /\ log' = Append(log, LogRecord("WARNING", "invalid_project_id", instance[i_pos]["id"],
                                    <<instance[i_pos]["project_id"]>>))
    /\ i_pos' = Len(instance) + 1
    /\ UNCHANGED <<hypervisor, instance, project, fetched, pc, h_pos, hyp_short,
                   project_by_id, instance_hypervisor, instance_by_id, enriched, result,
                   exit_status, run, first_result, reports, r_pos, written>>

\* lines 73-75
JoinInvalidProject ==
    /\ pc = "join"
    /\ i_pos <= Len(instance)
    /\ JoinVerdict(instance[i_pos]) = "invalid_project_id"
    /\ log' = Append(log, LogRecord("WARNING", "invalid_project_id", instance[i_pos]["id"],
                                    <<instance[i_pos]["project_id"]>>))
    /\ i_pos' = i_pos + 1
    /\ UNCHANGED <<hypervisor, instance, project, fetched, pc, h_pos, hyp_short,
                   project_by_id, instance_hypervisor, instance_by_id, enriched, result,
                   exit_status, run, first_result, reports, r_pos, written>>

\* lines 77-78
JoinRetain ==
    /\ pc = "join"
    /\ i_pos <= Len(instance)
    /\ JoinVerdict(instance[i_pos]) = "retain"
    /\ instance_hypervisor' = SetItem(instance_hypervisor, instance[i_pos]["id"],
                                      hyp_short[short_name_of_instance(instance[i_pos])])
    /\ instance_by_id' = SetItem(instance_by_id, instance[i_pos]["id"], i_pos)
    /\ i_pos' = i_pos + 1
    /\ UNCHANGED <<hypervisor, instance, project, fetched, pc, h_pos, hyp_short,
                   project_by_id, enriched, result, log, exit_status, run, first_result,
                   reports, r_pos, written>>

\* the loop of line 65 is over; line 79
JoinDone ==
    /\ pc = "join"
    /\ i_pos > Len(instance)
    /\ log' = Append(log, LogRecord("DEBUG", "checked_instance_hypervisor", 0, <<>>))
    /\ enriched' = {}
    /\ pc' = "enrich"
    /\ UNCHANGED <<hypervisor, instance, project, fetched, h_pos, i_pos, hyp_short,
                   project_by_id, instance_hypervisor, instance_by_id, result,
                   exit_status, run, first_result, reports, r_pos, written>>

----------------------------------------------------------------------------
(* Lines 83-92: the join, on the instance objects themselves. *)

\* old_az of line 87 taken for new_az
old_az(iid) == instance[instance_by_id[iid]]["availability_zone"]

\* line 88
new_az(iid) == hypervisor[instance_hypervisor[iid]]["availability_zone"]

\* line 92, the right-hand side
display_name_of(i) == project[project_by_id[i["project_id"]]]["display_name"]

\* the two assignments made on a copy of i that is dropped
DecorateCopy(i, az, name) == i

\* the display name assigned to the key project_id
DecorateProjectId(i, az, name) ==
    SetItem(SetItem(i, "availability_zone", az), "project_id", name)

\* lines 89, 92: the two item assignments on the instance object i
Decorate(i, az, name) ==
    SetItem(SetItem(i, "availability_zone", az), "project_display_name", name)

\* one iteration of the loop of line 83; a dict is iterated in no particular order
Enrich ==
    /\ pc = "enrich"
    /\ \E iid \in DOMAIN instance_hypervisor \ enriched :
          LET ref == instance_by_id[iid]
              i == instance[ref]
          IN /\ instance' = [instance EXCEPT ![ref] = Decorate(i, new_az(iid), display_name_of(i))]
             /\ enriched' = enriched \cup {iid}
    /\ UNCHANGED <<hypervisor, project, fetched, pc, h_pos, i_pos, hyp_short,
                   project_by_id, instance_hypervisor, instance_by_id, result, log,
                   exit_status, run, first_result, reports, r_pos, written>>

\* line 94: the generator over instance_by_id.values()
Return ==
    /\ pc = "enrich"
    /\ enriched = DOMAIN instance_hypervisor
    /\ result' = {instance_by_id[iid] : iid \in DOMAIN instance_by_id}
    /\ pc' = "returned"
    /\ UNCHANGED <<hypervisor, instance, project, fetched, h_pos, i_pos, hyp_short,
                   project_by_id, instance_hypervisor, instance_by_id, enriched, log,
                   exit_status, run, first_result, reports, r_pos, written>>

\* one call of active_instances
ActiveInstances ==
    \/ ValidateFail \/ ValidateNext \/ ValidateDone
    \/ ResolveFirst \/ ResolveKeep \/ ResolveReplace \/ ResolveDone
    \/ JoinNoHypervisor \/ JoinUnknownHypervisor \/ JoinInvalidProject \/ JoinRetain
    \/ JoinDone
    \/ Enrich \/ Return

----------------------------------------------------------------------------
(* A caller that calls active_instances a second time with the same        *)
(* client, whose fetch returns the same record objects; a SystemExit of    *)
(* the first call is caught. The locals of the second call are fresh.      *)
Rerun ==
    /\ run = 1
    /\ pc \in {"returned", "exited"}
    /\ first_result' = [fatal |-> (pc = "exited"),
                        records |-> {instance[ref] : ref \in result}]
    /\ run' = 2
    /\ pc' = "validate"
    /\ h_pos' = 1
    /\ i_pos' = 1
    /\ hyp_short' = EmptyDict
    /\ project_by_id' = EmptyDict
    /\ instance_hypervisor' = EmptyDict
    /\ instance_by_id' = EmptyDict
    /\ enriched' = {}
    /\ result' = {}
    /\ exit_status' = NoExit
    /\ UNCHANGED <<hypervisor, instance, project, fetched, log, reports, r_pos, written>>

----------------------------------------------------------------------------
(* Lines 97-107, 155-159: the script. *)

\* line 102: client.get_reports()
GetReports ==
    /\ pc = "main"
    /\ \E names \in ReportLists : reports' = names
    /\ r_pos' = 1
    /\ pc' = "all_reports"
    /\ UNCHANGED <<hypervisor, instance, project, fetched, h_pos, i_pos, hyp_short,
                   project_by_id, instance_hypervisor, instance_by_id, enriched, result,
                   log, exit_status, run, first_result, written>>

\* lines 97-99, 103: one report fetched and written to outfile_name
TestOneReport ==
    /\ pc = "all_reports"
    /\ r_pos <= Len(reports)
    /\ written' = written + 1
    /\ r_pos' = r_pos + 1
    /\ UNCHANGED <<hypervisor, instance, project, fetched, pc, h_pos, i_pos, hyp_short,
                   project_by_id, instance_hypervisor, instance_by_id, enriched, result,
                   log, exit_status, run, first_result, reports>>

\* lines 157, 106: test_all_reports is over, active_instances is called
CallActiveInstances ==
    /\ pc = "all_reports"
    /\ r_pos > Len(reports)
    /\ pc' = "validate"
    /\ UNCHANGED <<hypervisor, instance, project, fetched, h_pos, i_pos, hyp_short,
                   project_by_id, instance_hypervisor, instance_by_id, enriched, result,
                   log, exit_status, run, first_result, reports, r_pos, written>>

\* line 107: the returned records written to outfile_name
WriteActiveInstances ==
    /\ pc = "returned"
    /\ written' = written + 1
    /\ pc' = "written"
    /\ UNCHANGED <<hypervisor, instance, project, fetched, h_pos, i_pos, hyp_short,
                   project_by_id, instance_hypervisor, instance_by_id, enriched, result,
                   log, exit_status, run, first_result, reports, r_pos>>

\* line 159: sys.exit(0)
Exit0 ==
    /\ pc = "written"
    /\ exit_status' = 0
    /\ pc' = "exited"
    /\ UNCHANGED <<hypervisor, instance, project, fetched, h_pos, i_pos, hyp_short,
                   project_by_id, instance_hypervisor, instance_by_id, enriched, result,
                   log, run, first_result, reports, r_pos, written>>

----------------------------------------------------------------------------
Next == ActiveInstances

NextTwice == ActiveInstances \/ Rerun

NextMain ==
    \/ GetReports \/ TestOneReport \/ CallActiveInstances
    \/ ActiveInstances
    \/ WriteActiveInstances \/ Exit0

Spec == Init /\ [][Next]_vars

SpecResolve == InitResolve /\ [][Next]_vars

SpecTwice == InitTwice /\ [][NextTwice]_vars

SpecMain == InitMain /\ [][NextMain]_vars

----------------------------------------------------------------------------
(* Vocabulary of the properties, defined on the data and not by the code's *)
(* own operators.                                                          *)

\* the text of s before its first '.', all of s when it has none
BeforeFirstDot(s) ==
    LET dots == {n \in 1..Len(s) : s[n] = "."}
    IN IF dots = {} THEN s
       ELSE SubSeq(s, 1, (CHOOSE n \in dots : \A m \in dots : n <= m) - 1)

HasNoZone(h) == h["availability_zone"] = EmptyStr \/ h["availability_zone"] = None

ZonelessHypervisors == {k \in 1..Len(hypervisor) : HasNoZone(hypervisor[k])}

FirstZoneless == CHOOSE k \in ZonelessHypervisors : \A j \in ZonelessHypervisors : k <= j

\* the hypervisors of short name s
Sharing(s) == {k \in 1..Len(hypervisor) : BeforeFirstDot(hypervisor[k]["hostname"]) = s}

\* instance i names a hypervisor that the short-name map does not hold
Unresolvable(i) ==
    /\ i["hypervisor"] # None
    /\ BeforeFirstDot(i["hypervisor"]) \notin DOMAIN hyp_short

KnownProjectIds == {project[j]["id"] : j \in 1..Len(project)}

\* the positions in the log of the warnings about instance iid
WarningsAbout(iid) ==
    {n \in 1..Len(log) :
        /\ log[n]["level"] = "WARNING"
        /\ log[n]["event"] \in {"no_hypervisor", "invalid_project_id"}
        /\ log[n]["id"] = iid}

\* the hypervisor loops are over and the short-name map is complete
Resolved == pc \in {"join", "enrich", "returned"}

----------------------------------------------------------------------------
(* C1: a hypervisor with an empty or None availability_zone anywhere in    *)
(* the report is fatal before any instance is examined: the call never     *)
(* leaves the check of lines 39-42 but by exit status 1, the one record    *)
(* logged is the error naming the first such hypervisor, no instance is    *)
(* retained or changed and nothing is returned.                            *)
C1_ZonelessHypervisorIsFatal ==
    ZonelessHypervisors # {} =>
        /\ pc \in {"validate", "exited"}
        /\ pc = "validate" => (h_pos <= FirstZoneless /\ log = <<>> /\ exit_status = NoExit)
        /\ pc = "exited" =>
              /\ exit_status = 1
              /\ log = <<LogRecord("ERROR", "no_availability_zone",
                                   hypervisor[FirstZoneless]["id"], <<>>)>>
        /\ i_pos = 1
        /\ instance = fetched
        /\ instance_by_id = EmptyDict
        /\ instance_hypervisor = EmptyDict
        /\ enriched = {}
        /\ result = {}

\* the run has aborted on a second hypervisor without zone (None), with instances fetched
C1_Witness ==
    /\ pc = "exited"
    /\ exit_status = 1
    /\ Len(hypervisor) = 2
    /\ ~HasNoZone(hypervisor[1])
    /\ hypervisor[2]["availability_zone"] = None
    /\ \E k \in 1..Len(instance) : instance[k]["hypervisor"] = short_a

(* C2: the instance loop never goes past an instance with a hypervisor     *)
(* reference that is not None and whose short name is no key of the        *)
(* short-name map: it exits there with status 1 and the error naming that  *)
(* instance, whatever its project_id, with nothing returned and no         *)
(* instance changed, also when earlier instances were retained.            *)
C2_UnknownHypervisorIsFatal ==
    /\ pc = "join" => \A k \in 1..(i_pos - 1) : ~Unresolvable(instance[k])
    /\ pc \in {"enrich", "returned"} => \A k \in 1..Len(instance) : ~Unresolvable(instance[k])
    /\ (pc = "exited" /\ ZonelessHypervisors = {}) =>
          /\ i_pos \in 1..Len(instance)
          /\ Unresolvable(instance[i_pos])
          /\ \A k \in 1..(i_pos - 1) : ~Unresolvable(instance[k])
          /\ exit_status = 1
          /\ log[Len(log)] = LogRecord("ERROR", "unknown_hypervisor",
                                       instance[i_pos]["id"], <<>>)
          /\ result = {}
          /\ enriched = {}
          /\ instance = fetched

\* the run has aborted on an instance of unknown project, after retaining another
C2_Witness ==
    /\ pc = "exited"
    /\ ZonelessHypervisors = {}
    /\ instance_by_id # EmptyDict
    /\ Unresolvable(instance[i_pos])
    /\ instance[i_pos]["project_id"] = "PX"

(* C3: of a call that returns, the returned records are exactly the        *)
(* instances whose hypervisor reference is not None, whose short name is   *)
(* a key of the short-name map and whose project_id is the id of a         *)
(* project; a dropped instance does not stop the loop.                     *)
C3_ReturnedIffResolvable ==
    pc = "returned" =>
        \A k \in 1..Len(instance) :
            k \in result <=>
                /\ fetched[k]["hypervisor"] # None
                /\ BeforeFirstDot(fetched[k]["hypervisor"]) \in DOMAIN hyp_short
                /\ fetched[k]["project_id"] \in KnownProjectIds

\* an instance of unknown project was dropped and the one after it returned
C3_Witness ==
    /\ pc = "returned"
    /\ Len(instance) = 2
    /\ fetched[1]["hypervisor"] # None
    /\ fetched[1]["project_id"] = "PX"
    /\ 1 \notin result
    /\ 2 \in result

(* C4: every returned record has the availability_zone of the hypervisor   *)
(* in the short-name slot of its hypervisor reference, and the             *)
(* display_name of the project of its project_id.                          *)
C4_EnrichedFromSlotAndProject ==
    pc = "returned" =>
        \A ref \in result :
            LET i == instance[ref]
                s == BeforeFirstDot(fetched[ref]["hypervisor"])
            IN /\ s \in DOMAIN hyp_short
               /\ i["availability_zone"] = hypervisor[hyp_short[s]]["availability_zone"]
               /\ "project_display_name" \in DOMAIN i
               /\ \E j \in 1..Len(project) :
                     /\ project[j]["id"] = fetched[ref]["project_id"]
                     /\ i["project_display_name"] = project[j]["display_name"]

\* a returned instance named a.y in full and got the zone of the other hypervisor a
C4_Witness ==
    /\ pc = "returned"
    /\ \E ref \in result :
          /\ fetched[ref]["hypervisor"] = host_ay
          /\ hypervisor[hyp_short[short_a]]["hostname"] = host_ax
          /\ instance[ref]["availability_zone"] # fetched[ref]["availability_zone"]
          /\ \E k \in Sharing(short_a) :
                /\ hypervisor[k]["hostname"] = host_ay
                /\ hypervisor[k]["availability_zone"] # instance[ref]["availability_zone"]

(* C5: once the loop of line 49 is over, the short-name map has one entry  *)
(* for each short name of the report and no other, and the hypervisor in   *)
(* a slot was seen no earlier than any hypervisor of that short name.      *)
C5_OneMostRecentPerShortName ==
    Resolved =>
        /\ DOMAIN hyp_short =
              {BeforeFirstDot(hypervisor[k]["hostname"]) : k \in 1..Len(hypervisor)}
        /\ \A s \in DOMAIN hyp_short :
              /\ hyp_short[s] \in Sharing(s)
              /\ \A k \in Sharing(s) :
                    hypervisor[hyp_short[s]]["last_seen"] >= hypervisor[k]["last_seen"]

\* three hypervisors share a short name and the slot holds neither the last nor the first
C5_Witness ==
    /\ Resolved
    /\ \E s \in DOMAIN hyp_short :
          /\ Cardinality(Sharing(s)) >= 3
          /\ \E j, k \in Sharing(s) : j < hyp_short[s] /\ hyp_short[s] < k

\* the loop of line 49 is at a hypervisor whose short name is in the map already
Collision ==
    /\ pc = "resolve"
    /\ h_pos <= Len(hypervisor)
    /\ BeforeFirstDot(hypervisor[h_pos]["hostname"]) \in DOMAIN hyp_short

StoredForCurrent == hypervisor[hyp_short[BeforeFirstDot(hypervisor[h_pos]["hostname"])]]

TakesSlot ==
    hyp_short' = [hyp_short EXCEPT ![BeforeFirstDot(hypervisor[h_pos]["hostname"])] = h_pos]

(* C6, as stated: of two hypervisors of one short name the later takes     *)
(* the slot only when its last_seen is greater; on equal last_seen the     *)
(* stored one is kept.                                                     *)
C6_TieKeepsFirst ==
    [][Collision =>
          IF hypervisor[h_pos]["last_seen"] > StoredForCurrent["last_seen"]
          THEN TakesSlot ELSE hyp_short' = hyp_short]_vars

(* C6, amended: of two hypervisors of one short name the later takes the   *)
(* slot when its last_seen is greater or equal; on equal last_seen the     *)
(* later one replaces the stored one.                                      *)
C6_TieTakesLast ==
    [][Collision =>
          IF hypervisor[h_pos]["last_seen"] >= StoredForCurrent["last_seen"]
          THEN TakesSlot ELSE hyp_short' = hyp_short]_vars

\* a slot holds a hypervisor that replaced an earlier one of the same last_seen
C6_Witness ==
    /\ pc = "resolve"
    /\ \E s \in DOMAIN hyp_short :
          /\ hyp_short[s] < h_pos
          /\ \E j \in Sharing(s) :
                /\ j < hyp_short[s]
                /\ hypervisor[j]["last_seen"] = hypervisor[hyp_short[s]]["last_seen"]
                /\ \A k \in Sharing(s) : k < h_pos =>
                      hypervisor[k]["last_seen"] <= hypervisor[j]["last_seen"]

(* C7, as stated: when a run is over, by return or by exit, every instance *)
(* without hypervisor is absent from the result and exactly one warning    *)
(* about it is in the log.                                                 *)
C7_WarnedInEveryRun ==
    pc \in {"returned", "exited"} =>
        \A k \in 1..Len(instance) :
            fetched[k]["hypervisor"] = None =>
                /\ k \notin result
                /\ Cardinality(WarningsAbout(fetched[k]["id"])) = 1

(* C7, amended: an instance without hypervisor is never retained nor       *)
(* returned; the log holds exactly one warning about it once the instance  *)
(* loop has passed it, so in every run that returns, and none before or    *)
(* when the run exits before reaching it; never two.                       *)
C7_WarnedOnceWhenReached ==
    \A k \in 1..Len(instance) :
        fetched[k]["hypervisor"] = None =>
            /\ k \notin result
            /\ fetched[k]["id"] \notin DOMAIN instance_by_id
            /\ Cardinality(WarningsAbout(fetched[k]["id"])) = (IF i_pos > k THEN 1 ELSE 0)

\* a run has returned over an instance with neither hypervisor nor known project
C7_Witness ==
    /\ pc = "returned"
    /\ \E k \in 1..Len(instance) :
          /\ fetched[k]["hypervisor"] = None
          /\ fetched[k]["project_id"] = "PX"
          /\ Cardinality(WarningsAbout(fetched[k]["id"])) = 1

\* the availability_zone of the hypervisor that holds the slot of fetched record k
new_az_of_fetched(k) ==
    hypervisor[hyp_short[BeforeFirstDot(fetched[k]["hypervisor"])]]["availability_zone"]

(* C8, as stated: after a call that returns, every record of the fetched   *)
(* instance list has the availability_zone it was fetched with and no      *)
(* project_display_name.                                                   *)
C8_FetchedUntouched ==
    pc = "returned" =>
        \A k \in 1..Len(instance) :
            /\ instance[k]["availability_zone"] = fetched[k]["availability_zone"]
            /\ "project_display_name" \notin DOMAIN instance[k]

(* C8, amended: the enrichment is done on the fetched records themselves:  *)
(* after a call that returns, every fetched record that is returned has a  *)
(* project_display_name and its hypervisor's availability_zone, its other  *)
(* fields as fetched; the dropped records alone are as fetched.            *)
C8_FetchedEnrichedInPlace ==
    pc = "returned" =>
        \A k \in 1..Len(instance) :
            IF k \in result
            THEN /\ DOMAIN instance[k] = DOMAIN fetched[k] \cup {"project_display_name"}
                 /\ instance[k]["availability_zone"] = new_az_of_fetched(k)
                 /\ \A f \in {"id", "hypervisor", "project_id"} :
                       instance[k][f] = fetched[k][f]
            ELSE instance[k] = fetched[k]

\* a returned record differs from what was fetched, a dropped one does not
C8_Witness ==
    /\ pc = "returned"
    /\ \E k \in result : instance[k]["availability_zone"] # fetched[k]["availability_zone"]
    /\ \E k \in 1..Len(instance) : k \notin result

(* C9: a second call over the same record objects ends as the first did:   *)
(* both exit, or both return and the records returned are the same.        *)
C9_SecondCallSameOutcome ==
    (run = 2 /\ pc \in {"returned", "exited"}) =>
        /\ pc = "exited" <=> first_result["fatal"]
        /\ pc = "returned" => {instance[ref] : ref \in result} = first_result["records"]

\* a second call has returned records that the first call had changed
C9_Witness ==
    /\ run = 2
    /\ pc = "returned"
    /\ result # {}
    /\ Cardinality(first_result["records"]) = Cardinality(result)
    /\ \E ref \in result : instance[ref] # fetched[ref]

(* C10: when the script ends on an error of active_instances, its exit     *)
(* status is not 0 and nothing was written to the output path.             *)
C10_FatalLeavesNoFile ==
    (pc = "exited" /\ \E n \in 1..Len(log) : log[n]["level"] = "ERROR") =>
        /\ exit_status # 0
        /\ exit_status # NoExit
        /\ written = 0

====
